---- MODULE Spec2Model ----
(***************************************************************************)
(* Upgrade Assistant delegate (upgrade-assistant/src/lib.rs).              *)
(*                                                                         *)
(* The delegate is a stateless function `process(attested, message)`.  The *)
(* model is that function, translated handler by handler, together with    *)
(* the host that calls it: the host keeps the secret store, answers the    *)
(* GetSecretRequests the delegate emits, and carries the context blob from *)
(* one call to the next.                                                   *)
(*                                                                         *)
(* Byte strings produced by ciborium are modelled one level above the      *)
(* bytes, as sequences of CBOR data-item heads (map(n), array(n), uint,    *)
(* text, null).  Text is a TLA+ string, a byte array a sequence of         *)
(* numbers 0..255.                                                         *)
(***************************************************************************)
EXTENDS Integers, Sequences, FiniteSets, TLC

(***************************************************************************)
(* Bounds of the model and program constants.                              *)
(***************************************************************************)
\* Largest pending-operation table a GetPreviousKey request may leave.
MaxPending == 2
\* Lookups the host lets the delegate issue in one behaviour of SpecPending.
MaxLookups == 2
\* Length the model gives the fixed-size arrays (delegate_key, code_hash, app),
\* which are [u8; 32] in the program.
KeyLen == 2

(***************************************************************************)
(* Option<T>.                                                              *)
(***************************************************************************)
NoneStr == [some |-> FALSE, val |-> ""]
SomeStr(s) == [some |-> TRUE, val |-> s]
NoneSeq == [some |-> FALSE, val |-> <<>>]
SomeSeq(x) == [some |-> TRUE, val |-> x]

\* [b; N]
Fill(b) == [i \in 1..KeyLen |-> b]

\* let v = ...; body(v).  The bound value is computed once.
Let(v, body(_)) == body(v)

(***************************************************************************)
(* bs58::encode(bytes).into_string(): one '1' per leading zero byte, then  *)
(* the big-endian number in base 58 over the Bitcoin alphabet.             *)
(***************************************************************************)
B58Alphabet ==
  << "1","2","3","4","5","6","7","8","9",
     "A","B","C","D","E","F","G","H","J","K","L","M","N","P","Q","R","S",
     "T","U","V","W","X","Y","Z",
     "a","b","c","d","e","f","g","h","i","j","k","m","n","o","p","q","r",
     "s","t","u","v","w","x","y","z" >>

RECURSIVE BytesToNat(_)
BytesToNat(bytes) ==
  IF bytes = <<>> THEN 0
  ELSE 256 * BytesToNat(SubSeq(bytes, 1, Len(bytes) - 1)) + bytes[Len(bytes)]

RECURSIVE NatToB58(_)
NatToB58(n) ==
  IF n = 0 THEN "" ELSE NatToB58(n \div 58) \o B58Alphabet[(n % 58) + 1]

RECURSIVE LeadingOnes(_)
LeadingOnes(bytes) ==
  IF bytes # <<>> /\ bytes[1] = 0 THEN "1" \o LeadingOnes(Tail(bytes)) ELSE ""

\* A base58 that forgets the leading zero bytes.
Bs58EncodeNoLeadingZeros(bytes) == NatToB58(BytesToNat(bytes))

bs58_encode(bytes) == LeadingOnes(bytes) \o NatToB58(BytesToNat(bytes))

(***************************************************************************)
(* create_storage_key: "upgrade_assistant:{origin_base58}:{namespace}".    *)
(* The SecretsId is modelled by its key string (the code only ever reads   *)
(* it back through String::from_utf8_lossy, which is the identity on the   *)
(* UTF-8 bytes of a String).                                               *)
(***************************************************************************)
create_storage_key(origin, namespace) ==
  LET origin_b58 == bs58_encode(origin)
      ns == IF namespace.some THEN namespace.val ELSE "_default_"
  IN "upgrade_assistant:" \o origin_b58 \o ":" \o ns

(***************************************************************************)
(* CBOR data items as ciborium writes them.                                *)
(***************************************************************************)
Map(n) == [t |-> "map", n |-> n, s |-> ""]
Arr(n) == [t |-> "array", n |-> n, s |-> ""]
UInt(v) == [t |-> "uint", n |-> v, s |-> ""]
Text(s) == [t |-> "text", n |-> 0, s |-> s]
Null == [t |-> "null", n |-> 0, s |-> ""]
Eof == [t |-> "eof", n |-> 0, s |-> ""]

Tok(toks, p) == IF p >= 1 /\ p <= Len(toks) THEN toks[p] ELSE Eof

\* Result of a failed parse.
Fail == [ok |-> FALSE, val |-> <<>>, pos |-> 0]
Parsed(v, p) == [ok |-> TRUE, val |-> v, pos |-> p]

\* Vec<u8> and [u8; N] serialize as an array of unsigned integers.
SerU8Seq(bytes) == <<Arr(Len(bytes))>> \o [i \in 1..Len(bytes) |-> UInt(bytes[i])]

SerOptStr(o) == IF o.some THEN <<Text(o.val)>> ELSE <<Null>>

SerOptU8Seq(o) == IF o.some THEN SerU8Seq(o.val) ELSE <<Null>>

\* fixed < 0: Vec<u8> of any length; fixed >= 0: [u8; fixed].
DeU8Seq(toks, p, fixed) ==
  LET h == Tok(toks, p) IN
  IF h.t # "array" \/ (fixed >= 0 /\ h.n # fixed) THEN Fail
  ELSE IF \E i \in 1..h.n : Tok(toks, p + i).t # "uint" \/ Tok(toks, p + i).n > 255
       THEN Fail
       ELSE Parsed([i \in 1..h.n |-> toks[p + i].n], p + h.n + 1)

DeOptStr(toks, p) ==
  LET h == Tok(toks, p) IN
  IF h.t = "null" THEN Parsed(NoneStr, p + 1)
  ELSE IF h.t = "text" THEN Parsed(SomeStr(h.s), p + 1)
  ELSE Fail

DeOptU8Seq(toks, p, fixed) ==
  IF Tok(toks, p).t = "null" THEN Parsed(NoneSeq, p + 1)
  ELSE Let(DeU8Seq(toks, p, fixed), LAMBDA a :
         IF a.ok THEN Parsed(SomeSeq(a.val), a.pos) ELSE Fail)

(***************************************************************************)
(* StoredKeyInfo { delegate_key, code_hash } under ciborium: a map of the  *)
(* two fields, in declaration order.                                       *)
(***************************************************************************)
StoredKeyInfo(delegate_key, code_hash) ==
  [delegate_key |-> delegate_key, code_hash |-> code_hash]

SerStoredKeyInfo(info) ==
  <<Map(2), Text("delegate_key")>> \o SerU8Seq(info.delegate_key)
    \o <<Text("code_hash")>> \o SerU8Seq(info.code_hash)

DeStoredKeyInfo(toks) ==
  IF Tok(toks, 1) # Map(2) \/ Tok(toks, 2) # Text("delegate_key") THEN Fail
  ELSE Let(DeU8Seq(toks, 3, KeyLen), LAMBDA dk :
         IF ~dk.ok \/ Tok(toks, dk.pos) # Text("code_hash") THEN Fail
         ELSE Let(DeU8Seq(toks, dk.pos + 1, KeyLen), LAMBDA ch :
                IF ~ch.ok THEN Fail
                ELSE Parsed(StoredKeyInfo(dk.val, ch.val), ch.pos)))

(***************************************************************************)
(* PendingOperation: an externally tagged enum, map(1) { variant: fields }.*)
(* Origin is a newtype over Vec<u8> and serializes as its content.         *)
(***************************************************************************)
PendingGetPreviousKey(origin, namespace, app) ==
  [variant |-> "GetPreviousKey", origin |-> origin, namespace |-> namespace,
   app |-> app, delegate_key |-> <<>>, code_hash |-> <<>>]

PendingSetCurrentKey(origin, namespace, delegate_key, code_hash) ==
  [variant |-> "SetCurrentKey", origin |-> origin, namespace |-> namespace,
   app |-> <<>>, delegate_key |-> delegate_key, code_hash |-> code_hash]

SerPendingOperation(op) ==
  IF op.variant = "GetPreviousKey"
  THEN <<Map(1), Text("GetPreviousKey"), Map(3), Text("origin")>>
         \o SerU8Seq(op.origin) \o <<Text("namespace")>> \o SerOptStr(op.namespace)
         \o <<Text("app")>> \o SerU8Seq(op.app)
  ELSE <<Map(1), Text("SetCurrentKey"), Map(4), Text("origin")>>
         \o SerU8Seq(op.origin) \o <<Text("namespace")>> \o SerOptStr(op.namespace)
         \o <<Text("delegate_key")>> \o SerU8Seq(op.delegate_key)
         \o <<Text("code_hash")>> \o SerU8Seq(op.code_hash)

\* The fields after `namespace`, which differ by variant.
DePendingFields(toks, p, q, origin, namespace) ==
  IF Tok(toks, p + 1).s = "GetPreviousKey" /\ Tok(toks, p + 2) = Map(3)
       /\ Tok(toks, q) = Text("app")
  THEN Let(DeU8Seq(toks, q + 1, KeyLen), LAMBDA app :
         IF ~app.ok THEN Fail
         ELSE Parsed(PendingGetPreviousKey(origin, namespace, app.val), app.pos))
  ELSE IF Tok(toks, p + 1).s = "SetCurrentKey" /\ Tok(toks, p + 2) = Map(4)
            /\ Tok(toks, q) = Text("delegate_key")
  THEN Let(DeU8Seq(toks, q + 1, KeyLen), LAMBDA dk :
         IF ~dk.ok \/ Tok(toks, dk.pos) # Text("code_hash") THEN Fail
         ELSE Let(DeU8Seq(toks, dk.pos + 1, KeyLen), LAMBDA ch :
                IF ~ch.ok THEN Fail
                ELSE Parsed(PendingSetCurrentKey(origin, namespace, dk.val, ch.val),
                            ch.pos)))
  ELSE Fail

DePendingOperation(toks, p) ==
  IF Tok(toks, p) # Map(1) \/ Tok(toks, p + 1).t # "text"
       \/ Tok(toks, p + 3) # Text("origin")
  THEN Fail
  ELSE Let(DeU8Seq(toks, p + 4, -1), LAMBDA o :
         IF ~o.ok \/ Tok(toks, o.pos) # Text("namespace") THEN Fail
         ELSE Let(DeOptStr(toks, o.pos + 1), LAMBDA ns :
                IF ~ns.ok THEN Fail
                ELSE DePendingFields(toks, p, ns.pos, o.val, ns.val)))

(***************************************************************************)
(* UpgradeAssistantContext { pending_ops: HashMap<String, PendingOperation>*)
(* }.  In memory: a function from key strings to pending operations.  A    *)
(* HashMap is written in its iteration order, which the program does not   *)
(* control: the serializer takes the order as `ord`, a sequence listing    *)
(* the keys of the table once each.                                        *)
(***************************************************************************)
EmptyOps == [k \in {} |-> PendingGetPreviousKey(<<>>, NoneStr, <<>>)]

UpgradeAssistantContext(ops) == [pending_ops |-> ops]

\* UpgradeAssistantContext::default()
DefaultContext == UpgradeAssistantContext(EmptyOps)

\* HashMap::insert
HashMapInsert(m, k, v) == [x \in (DOMAIN m) \cup {k} |-> IF x = k THEN v ELSE m[x]]

\* HashMap::remove, the map that is left
HashMapRemove(m, k) == [x \in (DOMAIN m) \ {k} |-> m[x]]

\* The orders in which a HashMap with key set S may be iterated.
IterationOrders(S) ==
  {f \in [1..Cardinality(S) -> S] : \A i, j \in 1..Cardinality(S) : f[i] = f[j] => i = j}

RECURSIVE SerEntries(_, _, _)
SerEntries(ops, ord, i) ==
  IF i > Len(ord) THEN <<>>
  ELSE <<Text(ord[i])>> \o SerPendingOperation(ops[ord[i]]) \o SerEntries(ops, ord, i + 1)

SerContext(ctx, ord) ==
  <<Map(1), Text("pending_ops"), Map(Len(ord))>> \o SerEntries(ctx.pending_ops, ord, 1)

\* n entries from position p on, inserted into acc in the order read.
RECURSIVE DeEntries(_, _, _, _)
DeEntries(toks, p, n, acc) ==
  IF n = 0 THEN Parsed(acc, p)
  ELSE IF Tok(toks, p).t # "text" THEN Fail
  ELSE Let(DePendingOperation(toks, p + 1), LAMBDA op :
         IF ~op.ok THEN Fail
         ELSE DeEntries(toks, op.pos, n - 1, HashMapInsert(acc, Tok(toks, p).s, op.val)))

DeContext(toks) ==
  IF Tok(toks, 1) # Map(1) \/ Tok(toks, 2) # Text("pending_ops") \/ Tok(toks, 3).t # "map"
  THEN Fail
  ELSE Let(DeEntries(toks, 4, Tok(toks, 3).n, EmptyOps), LAMBDA es :
         IF ~es.ok THEN Fail ELSE Parsed(UpgradeAssistantContext(es.val), es.pos))

(***************************************************************************)
(* DelegateError, and Result<T, DelegateError>.                            *)
(***************************************************************************)
ErrMissingOrigin == "Other: missing attested origin"
ErrProcessed == "Other: cannot process an already processed message"
ErrUserResponse == "Other: unexpected message type: UserResponse"
ErrGetSecretRequest == "Other: unexpected message type: GetSecretRequest"
ErrNoPending(key_str) == "Other: No pending operation for key: " \o key_str
ErrSetPending == "Other: Unexpected SetCurrentKey pending operation for get secret response"
ErrDeserContext == "Deser: Failed to deserialize context"
ErrDeserRequest == "Deser: Failed to deserialize request"
ErrDeserKeyInfo == "Deser: Failed to deserialize key info"

Ok(v) == [ok |-> TRUE, err |-> "", val |-> v]
Err(e) == [ok |-> FALSE, err |-> e, val |-> <<>>]

(***************************************************************************)
(* impl TryFrom<DelegateContext> for UpgradeAssistantContext and back.     *)
(***************************************************************************)
\* The conversion without the case of the empty blob.
ContextTryFromWithoutEmptyCase(bytes) ==
  Let(DeContext(bytes), LAMBDA d :
    IF d.ok THEN Ok(d.val) ELSE Err(ErrDeserContext))

ContextTryFrom(bytes) ==
  IF bytes = <<>> THEN Ok(DefaultContext)
  ELSE Let(DeContext(bytes), LAMBDA d :
         IF d.ok THEN Ok(d.val) ELSE Err(ErrDeserContext))

\* `iter` lists the keys of the HashMap's buckets in iteration order; it may
\* list keys the table does not hold.
TableOrder(ctx, iter) == SelectSeq(iter, LAMBDA k : k \in DOMAIN ctx.pending_ops)

DelegateContextTryFrom(ctx, iter) == Ok(SerContext(ctx, TableOrder(ctx, iter)))

(***************************************************************************)
(* UpgradeAssistantRequest and UpgradeAssistantResponse, and their CBOR.   *)
(***************************************************************************)
RequestGetPreviousKey(namespace) ==
  [variant |-> "GetPreviousKey", namespace |-> namespace,
   delegate_key |-> <<>>, code_hash |-> <<>>]

RequestSetCurrentKey(namespace, delegate_key, code_hash) ==
  [variant |-> "SetCurrentKey", namespace |-> namespace,
   delegate_key |-> delegate_key, code_hash |-> code_hash]

SerRequest(r) ==
  IF r.variant = "GetPreviousKey"
  THEN <<Map(1), Text("GetPreviousKey"), Map(1), Text("namespace")>>
         \o SerOptStr(r.namespace)
  ELSE <<Map(1), Text("SetCurrentKey"), Map(3), Text("namespace")>>
         \o SerOptStr(r.namespace)
         \o <<Text("delegate_key")>> \o SerU8Seq(r.delegate_key)
         \o <<Text("code_hash")>> \o SerU8Seq(r.code_hash)

DeRequest(toks) ==
  IF Tok(toks, 1) # Map(1) \/ Tok(toks, 2).t # "text"
       \/ Tok(toks, 4) # Text("namespace")
  THEN Fail
  ELSE Let(DeOptStr(toks, 5), LAMBDA ns :
         IF ~ns.ok THEN Fail
         ELSE IF Tok(toks, 2).s = "GetPreviousKey" /\ Tok(toks, 3) = Map(1)
         THEN Parsed(RequestGetPreviousKey(ns.val), ns.pos)
         ELSE IF Tok(toks, 2).s = "SetCurrentKey" /\ Tok(toks, 3) = Map(3)
                   /\ Tok(toks, ns.pos) = Text("delegate_key")
         THEN Let(DeU8Seq(toks, ns.pos + 1, KeyLen), LAMBDA dk :
                IF ~dk.ok \/ Tok(toks, dk.pos) # Text("code_hash") THEN Fail
                ELSE Let(DeU8Seq(toks, dk.pos + 1, KeyLen), LAMBDA ch :
                       IF ~ch.ok THEN Fail
                       ELSE Parsed(RequestSetCurrentKey(ns.val, dk.val, ch.val),
                                   ch.pos)))
         ELSE Fail)

ResponsePreviousKey(namespace, delegate_key, code_hash) ==
  [variant |-> "PreviousKey", namespace |-> namespace,
   delegate_key |-> delegate_key, code_hash |-> code_hash]

ResponseKeyUpdated(namespace) ==
  [variant |-> "KeyUpdated", namespace |-> namespace,
   delegate_key |-> NoneSeq, code_hash |-> NoneSeq]

SerResponse(r) ==
  IF r.variant = "PreviousKey"
  THEN <<Map(1), Text("PreviousKey"), Map(3), Text("namespace")>>
         \o SerOptStr(r.namespace)
         \o <<Text("delegate_key")>> \o SerOptU8Seq(r.delegate_key)
         \o <<Text("code_hash")>> \o SerOptU8Seq(r.code_hash)
  ELSE <<Map(1), Text("KeyUpdated"), Map(1), Text("namespace")>>
         \o SerOptStr(r.namespace)

\* What the application (and the tests' extract_response) reads back.
DeResponse(toks) ==
  IF Tok(toks, 1) # Map(1) \/ Tok(toks, 2).t # "text"
       \/ Tok(toks, 4) # Text("namespace")
  THEN Fail
  ELSE Let(DeOptStr(toks, 5), LAMBDA ns :
         IF ~ns.ok THEN Fail
         ELSE IF Tok(toks, 2).s = "KeyUpdated" /\ Tok(toks, 3) = Map(1)
         THEN Parsed(ResponseKeyUpdated(ns.val), ns.pos)
         ELSE IF Tok(toks, 2).s = "PreviousKey" /\ Tok(toks, 3) = Map(3)
                   /\ Tok(toks, ns.pos) = Text("delegate_key")
         THEN Let(DeOptU8Seq(toks, ns.pos + 1, KeyLen), LAMBDA dk :
                IF ~dk.ok \/ Tok(toks, dk.pos) # Text("code_hash") THEN Fail
                ELSE Let(DeOptU8Seq(toks, dk.pos + 1, KeyLen), LAMBDA ch :
                       IF ~ch.ok THEN Fail
                       ELSE Parsed(ResponsePreviousKey(ns.val, dk.val, ch.val),
                                   ch.pos)))
         ELSE Fail)

(***************************************************************************)
(* InboundDelegateMsg and OutboundDelegateMsg (freenet_stdlib), as records *)
(* of one shape; a field a variant does not have holds its empty value.    *)
(***************************************************************************)
Msg(type, app, payload, context, key, value, processed) ==
  [type |-> type, app |-> app, payload |-> payload, context |-> context,
   key |-> key, value |-> value, processed |-> processed]

\* ApplicationMessage::new(app, payload).with_context(context)
ApplicationMessage(app, payload, context) ==
  Msg("ApplicationMessage", app, payload, context, "", NoneSeq, FALSE)

GetSecretRequest(key, context) ==
  Msg("GetSecretRequest", <<>>, <<>>, context, key, NoneSeq, FALSE)

SetSecretRequest(key, value) ==
  Msg("SetSecretRequest", <<>>, <<>>, <<>>, key, value, FALSE)

GetSecretResponse(key, value, context) ==
  Msg("GetSecretResponse", <<>>, <<>>, context, key, value, FALSE)

UserResponse == Msg("UserResponse", <<>>, <<>>, <<>>, "", NoneSeq, FALSE)

(***************************************************************************)
(* create_app_response                                                     *)
(***************************************************************************)
create_app_response(response, context, app) ==
  Ok(ApplicationMessage(app, SerResponse(response), context))

(***************************************************************************)
(* handle_get_previous_key                                                 *)
(***************************************************************************)
\* handle_get_previous_key with the context serialized before the insert.
HandleGetPreviousKeyBeforeInsert(context, origin, namespace, app, iter) ==
  Let(create_storage_key(origin, namespace), LAMBDA secret_key :
  Let(DelegateContextTryFrom(context, iter), LAMBDA context_bytes :
    IF ~context_bytes.ok THEN context_bytes
    ELSE Ok(<<GetSecretRequest(secret_key, context_bytes.val)>>)))

\* handle_get_previous_key leaving an entry that is already under the key.
HandleGetPreviousKeyKeepingFirst(context, origin, namespace, app, iter) ==
  Let(create_storage_key(origin, namespace), LAMBDA secret_key :
  Let(IF secret_key \in DOMAIN context.pending_ops THEN context
      ELSE UpgradeAssistantContext(
             HashMapInsert(context.pending_ops, secret_key,
                           PendingGetPreviousKey(origin, namespace, app))), LAMBDA inserted :
  Let(DelegateContextTryFrom(inserted, iter), LAMBDA context_bytes :
    IF ~context_bytes.ok THEN context_bytes
    ELSE Ok(<<GetSecretRequest(secret_key, context_bytes.val)>>))))

\* handle_get_previous_key recording no namespace in the entry.
HandleGetPreviousKeyWithoutNamespace(context, origin, namespace, app, iter) ==
  Let(create_storage_key(origin, namespace), LAMBDA secret_key :
  Let(UpgradeAssistantContext(
        HashMapInsert(context.pending_ops, secret_key,
                      PendingGetPreviousKey(origin, NoneStr, app))), LAMBDA inserted :
  Let(DelegateContextTryFrom(inserted, iter), LAMBDA context_bytes :
    IF ~context_bytes.ok THEN context_bytes
    ELSE Ok(<<GetSecretRequest(secret_key, context_bytes.val)>>))))

handle_get_previous_key(context, origin, namespace, app, iter) ==
  Let(create_storage_key(origin, namespace), LAMBDA secret_key :
  Let(UpgradeAssistantContext(
        HashMapInsert(context.pending_ops, secret_key,
                      PendingGetPreviousKey(origin, namespace, app))), LAMBDA inserted :
  Let(DelegateContextTryFrom(inserted, iter), LAMBDA context_bytes :
    IF ~context_bytes.ok THEN context_bytes
    ELSE Ok(<<GetSecretRequest(secret_key, context_bytes.val)>>))))

(***************************************************************************)
(* handle_set_current_key                                                  *)
(***************************************************************************)
\* handle_set_current_key returning the write before the reply.
HandleSetCurrentKeyWriteFirst(context, origin, namespace, delegate_key, code_hash, app, iter) ==
  Let(create_storage_key(origin, namespace), LAMBDA secret_id :
  Let(SerStoredKeyInfo(StoredKeyInfo(delegate_key, code_hash)), LAMBDA value :
  Let(DelegateContextTryFrom(context, iter), LAMBDA context_bytes :
    IF ~context_bytes.ok THEN context_bytes
    ELSE Let(create_app_response(ResponseKeyUpdated(namespace), context_bytes.val, app),
             LAMBDA app_response :
           IF ~app_response.ok THEN app_response
           ELSE Ok(<<SetSecretRequest(secret_id, SomeSeq(value)), app_response.val>>)))))

\* handle_set_current_key sending the write without the value.
HandleSetCurrentKeyWithoutValue(context, origin, namespace, delegate_key, code_hash, app, iter) ==
  Let(create_storage_key(origin, namespace), LAMBDA secret_id :
  Let(DelegateContextTryFrom(context, iter), LAMBDA context_bytes :
    IF ~context_bytes.ok THEN context_bytes
    ELSE Let(create_app_response(ResponseKeyUpdated(namespace), context_bytes.val, app),
             LAMBDA app_response :
           IF ~app_response.ok THEN app_response
           ELSE Ok(<<app_response.val, SetSecretRequest(secret_id, NoneSeq)>>))))

\* handle_set_current_key parking the request in the table before it replies.
HandleSetCurrentKeyParking(context, origin, namespace, delegate_key, code_hash, app, iter) ==
  Let(create_storage_key(origin, namespace), LAMBDA secret_id :
  Let(SerStoredKeyInfo(StoredKeyInfo(delegate_key, code_hash)), LAMBDA value :
  Let(DelegateContextTryFrom(
        UpgradeAssistantContext(
          HashMapInsert(context.pending_ops, secret_id,
                        PendingSetCurrentKey(origin, namespace, delegate_key, code_hash))),
        IF \E i \in DOMAIN iter : iter[i] = secret_id THEN iter
        ELSE Append(iter, secret_id)), LAMBDA context_bytes :
    IF ~context_bytes.ok THEN context_bytes
    ELSE Let(create_app_response(ResponseKeyUpdated(namespace), context_bytes.val, app),
             LAMBDA app_response :
           IF ~app_response.ok THEN app_response
           ELSE Ok(<<app_response.val, SetSecretRequest(secret_id, SomeSeq(value))>>)))))

handle_set_current_key(context, origin, namespace, delegate_key, code_hash, app, iter) ==
  Let(create_storage_key(origin, namespace), LAMBDA secret_id :
  Let(SerStoredKeyInfo(StoredKeyInfo(delegate_key, code_hash)), LAMBDA value :
  Let(DelegateContextTryFrom(context, iter), LAMBDA context_bytes :
    IF ~context_bytes.ok THEN context_bytes
    ELSE Let(create_app_response(ResponseKeyUpdated(namespace), context_bytes.val, app),
             LAMBDA app_response :
           IF ~app_response.ok THEN app_response
           ELSE Ok(<<app_response.val, SetSecretRequest(secret_id, SomeSeq(value))>>)))))

(***************************************************************************)
(* handle_get_secret_response                                              *)
(***************************************************************************)
\* The GetPreviousKey arm replying code_hash for delegate_key and back.
ResumeSwappingFields(response, context, namespace, app, iter) ==
  Let(IF response.value.some THEN DeStoredKeyInfo(response.value.val)
      ELSE Parsed(StoredKeyInfo(<<>>, <<>>), 0), LAMBDA key_info :
    IF ~key_info.ok THEN Err(ErrDeserKeyInfo)
    ELSE Let(IF response.value.some
             THEN ResponsePreviousKey(namespace, SomeSeq(key_info.val.code_hash),
                                      SomeSeq(key_info.val.delegate_key))
             ELSE ResponsePreviousKey(namespace, NoneSeq, NoneSeq), LAMBDA reply :
         Let(DelegateContextTryFrom(context, iter), LAMBDA context_bytes :
           IF ~context_bytes.ok THEN context_bytes
           ELSE Let(create_app_response(reply, context_bytes.val, app),
                    LAMBDA app_response :
                  IF ~app_response.ok THEN app_response
                  ELSE Ok(<<app_response.val>>)))))

\* The PendingOperation::GetPreviousKey arm of the match; `context` is the
\* table after the removal.
resume_get_previous_key(response, context, namespace, app, iter) ==
  Let(IF response.value.some THEN DeStoredKeyInfo(response.value.val)
      ELSE Parsed(StoredKeyInfo(<<>>, <<>>), 0), LAMBDA key_info :
    IF ~key_info.ok THEN Err(ErrDeserKeyInfo)
    ELSE Let(IF response.value.some
             THEN ResponsePreviousKey(namespace, SomeSeq(key_info.val.delegate_key),
                                      SomeSeq(key_info.val.code_hash))
             ELSE ResponsePreviousKey(namespace, NoneSeq, NoneSeq), LAMBDA reply :
         Let(DelegateContextTryFrom(context, iter), LAMBDA context_bytes :
           IF ~context_bytes.ok THEN context_bytes
           ELSE Let(create_app_response(reply, context_bytes.val, app),
                    LAMBDA app_response :
                  IF ~app_response.ok THEN app_response
                  ELSE Ok(<<app_response.val>>)))))

\* handle_get_secret_response decoding the value before it looks the entry up.
HandleGetSecretResponseValueFirst(response, iter) ==
  Let(ContextTryFrom(response.context), LAMBDA decoded :
    IF ~decoded.ok THEN decoded
    ELSE IF response.value.some /\ ~DeStoredKeyInfo(response.value.val).ok
    THEN Err(ErrDeserKeyInfo)
    ELSE IF response.key \notin DOMAIN decoded.val.pending_ops
    THEN Err(ErrNoPending(response.key))
    ELSE Let(decoded.val.pending_ops[response.key], LAMBDA pending_op :
           IF pending_op.variant = "GetPreviousKey"
           THEN resume_get_previous_key(
                  response,
                  UpgradeAssistantContext(
                    HashMapRemove(decoded.val.pending_ops, response.key)),
                  pending_op.namespace, pending_op.app, iter)
           ELSE Err(ErrSetPending)))

\* handle_get_secret_response reading the entry with get, not remove.
HandleGetSecretResponseKeepingEntry(response, iter) ==
  Let(ContextTryFrom(response.context), LAMBDA decoded :
    IF ~decoded.ok THEN decoded
    ELSE IF response.key \notin DOMAIN decoded.val.pending_ops
    THEN Err(ErrNoPending(response.key))
    ELSE Let(decoded.val.pending_ops[response.key], LAMBDA pending_op :
           IF pending_op.variant = "GetPreviousKey"
           THEN resume_get_previous_key(response, decoded.val,
                                        pending_op.namespace, pending_op.app, iter)
           ELSE Err(ErrSetPending)))

\* handle_get_secret_response treating a key that was never stored as an error.
HandleGetSecretResponseRequiringValue(response, iter) ==
  Let(ContextTryFrom(response.context), LAMBDA decoded :
    IF ~decoded.ok THEN decoded
    ELSE IF response.key \notin DOMAIN decoded.val.pending_ops THEN Err(ErrNoPending(response.key))
    ELSE IF ~response.value.some THEN Err(ErrDeserKeyInfo)
    ELSE Let(decoded.val.pending_ops[response.key], LAMBDA pending_op :
           IF pending_op.variant = "GetPreviousKey"
           THEN resume_get_previous_key(
                  response,
                  UpgradeAssistantContext(
                    HashMapRemove(decoded.val.pending_ops, response.key)),
                  pending_op.namespace, pending_op.app, iter)
           ELSE Err(ErrSetPending)))

\* handle_get_secret_response resuming with an empty table.
HandleGetSecretResponseClearingTable(response, iter) ==
  Let(ContextTryFrom(response.context), LAMBDA decoded :
    IF ~decoded.ok THEN decoded
    ELSE IF response.key \notin DOMAIN decoded.val.pending_ops THEN Err(ErrNoPending(response.key))
    ELSE Let(decoded.val.pending_ops[response.key], LAMBDA pending_op :
           IF pending_op.variant = "GetPreviousKey"
           THEN resume_get_previous_key(response, DefaultContext,
                                        pending_op.namespace, pending_op.app, iter)
           ELSE Err(ErrSetPending)))

handle_get_secret_response(response, iter) ==
  Let(ContextTryFrom(response.context), LAMBDA decoded :
    IF ~decoded.ok THEN decoded
    ELSE IF response.key \notin DOMAIN decoded.val.pending_ops THEN Err(ErrNoPending(response.key))
    ELSE Let(decoded.val.pending_ops[response.key], LAMBDA pending_op :
           IF pending_op.variant = "GetPreviousKey"
           THEN resume_get_previous_key(
                  response,
                  UpgradeAssistantContext(
                    HashMapRemove(decoded.val.pending_ops, response.key)),
                  pending_op.namespace, pending_op.app, iter)
           ELSE Err(ErrSetPending)))

(***************************************************************************)
(* handle_application_message                                              *)
(***************************************************************************)
\* handle_application_message falling back to the default context when the
\* inbound one does not decode.
HandleApplicationMessageDefaultingContext(app_msg, origin, iter) ==
  Let(ContextTryFrom(app_msg.context), LAMBDA tried :
  Let(IF tried.ok THEN tried ELSE Ok(DefaultContext), LAMBDA decoded :
  Let(DeRequest(app_msg.payload), LAMBDA request :
    IF ~request.ok THEN Err(ErrDeserRequest)
    ELSE IF request.val.variant = "GetPreviousKey"
    THEN handle_get_previous_key(decoded.val, origin, request.val.namespace,
                                 app_msg.app, iter)
    ELSE handle_set_current_key(decoded.val, origin, request.val.namespace,
                                request.val.delegate_key, request.val.code_hash,
                                app_msg.app, iter))))

handle_application_message(app_msg, origin, iter) ==
  Let(ContextTryFrom(app_msg.context), LAMBDA decoded :
    IF ~decoded.ok THEN decoded
    ELSE Let(DeRequest(app_msg.payload), LAMBDA request :
           IF ~request.ok THEN Err(ErrDeserRequest)
           ELSE IF request.val.variant = "GetPreviousKey"
           THEN handle_get_previous_key(decoded.val, origin, request.val.namespace,
                                        app_msg.app, iter)
           ELSE handle_set_current_key(decoded.val, origin, request.val.namespace,
                                       request.val.delegate_key, request.val.code_hash,
                                       app_msg.app, iter)))

(***************************************************************************)
(* UpgradeAssistant::process.  `attested` is Option<&[u8]>.                *)
(***************************************************************************)
\* process looking at the processed flag after the request was handled.
ProcessDecodingFirst(attested, message, iter) ==
  IF ~attested.some THEN Err(ErrMissingOrigin)
  ELSE CASE message.type = "ApplicationMessage" ->
              Let(handle_application_message(message, attested.val, iter), LAMBDA r :
                IF ~r.ok THEN r
                ELSE IF message.processed THEN Err(ErrProcessed) ELSE r)
         [] message.type = "GetSecretResponse" ->
              handle_get_secret_response(message, iter)
         [] message.type = "UserResponse" -> Err(ErrUserResponse)
         [] message.type = "GetSecretRequest" -> Err(ErrGetSecretRequest)

\* process resuming on an inbound GetSecretRequest as on a response.
ProcessResumingSecretRequest(attested, message, iter) ==
  IF ~attested.some THEN Err(ErrMissingOrigin)
  ELSE CASE message.type = "ApplicationMessage" ->
              IF message.processed THEN Err(ErrProcessed)
              ELSE handle_application_message(message, attested.val, iter)
         [] message.type \in {"GetSecretResponse", "GetSecretRequest"} ->
              handle_get_secret_response(message, iter)
         [] message.type = "UserResponse" -> Err(ErrUserResponse)

\* process answering a response only to the origin its entry records.
ProcessCheckingEntryOrigin(attested, message, iter) ==
  IF ~attested.some THEN Err(ErrMissingOrigin)
  ELSE CASE message.type = "ApplicationMessage" ->
              IF message.processed THEN Err(ErrProcessed)
              ELSE handle_application_message(message, attested.val, iter)
         [] message.type = "GetSecretResponse" ->
              Let(ContextTryFrom(message.context), LAMBDA decoded :
                IF /\ decoded.ok
                   /\ message.key \in DOMAIN decoded.val.pending_ops
                   /\ decoded.val.pending_ops[message.key].origin # attested.val
                THEN Err(ErrNoPending(message.key))
                ELSE handle_get_secret_response(message, iter))
         [] message.type = "UserResponse" -> Err(ErrUserResponse)
         [] message.type = "GetSecretRequest" -> Err(ErrGetSecretRequest)

\* process looking at the message before the origin.
ProcessCheckingMessageFirst(attested, message, iter) ==
  CASE message.type = "ApplicationMessage" ->
         IF message.processed THEN Err(ErrProcessed)
         ELSE IF ~attested.some THEN Err(ErrMissingOrigin)
         ELSE handle_application_message(message, attested.val, iter)
    [] message.type = "GetSecretResponse" ->
         IF ~attested.some THEN Err(ErrMissingOrigin)
         ELSE handle_get_secret_response(message, iter)
    [] message.type = "UserResponse" -> Err(ErrUserResponse)
    [] message.type = "GetSecretRequest" -> Err(ErrGetSecretRequest)

process(attested, message, iter) ==
  IF ~attested.some THEN Err(ErrMissingOrigin)
  ELSE CASE message.type = "ApplicationMessage" ->
              IF message.processed THEN Err(ErrProcessed)
              ELSE handle_application_message(message, attested.val, iter)
         [] message.type = "GetSecretResponse" ->
              handle_get_secret_response(message, iter)
         [] message.type = "UserResponse" -> Err(ErrUserResponse)
         [] message.type = "GetSecretRequest" -> Err(ErrGetSecretRequest)

(***************************************************************************)
(* The host: the values it feeds the delegate, and its state.              *)
(***************************************************************************)
\* Attested origins (contract keys of the requesting UIs).
Origins == {<<1>>, <<0, 1>>}
Namespaces == {NoneStr, SomeStr("_default_"), SomeStr("app")}
\* (delegate_key, code_hash) pairs the applications register.
KeyPairs == {StoredKeyInfo(Fill(42), Fill(7)), StoredKeyInfo(Fill(7), Fill(42))}
\* ContractInstanceIds of the applications.
Apps == {Fill(1), Fill(2)}
Attested == {SomeSeq(o) : o \in Origins}
\* The (origin, app) pairs GetPreviousKey requests come from: two applications
\* under one origin, one under the other.
Callers ==
  {[origin |-> <<1>>, app |-> Fill(1)], [origin |-> <<1>>, app |-> Fill(2)],
   [origin |-> <<0, 1>>, app |-> Fill(1)]}

AllKeys == {create_storage_key(o, ns) : o \in Origins, ns \in Namespaces}

\* Bytes that are no CBOR of any of the program's types.
Malformed == <<Map(1), Text("pending_ops")>>

\* A context no run of the delegate writes: a parked SetCurrentKey.
ParkedKey == create_storage_key(<<1>>, SomeStr("app"))

ParkedSetContext ==
  SerContext(UpgradeAssistantContext(
               HashMapInsert(EmptyOps, ParkedKey,
                 PendingSetCurrentKey(<<1>>, SomeStr("app"), Fill(42), Fill(7)))),
             <<ParkedKey>>)

VARIABLES
  store,      \* the host's secret store: key -> Option<bytes>
  inflight,   \* lookups the delegate issued and the host has not answered yet
  carried,    \* the context blob of the delegate's latest outbound message
  pc,         \* "idle": the host picks a message; "returned": process returned
  lastIn,     \* arguments of the invocation that returned
  lastOut,    \* what it returned
  issued,     \* history: number of lookups issued
  answered,   \* history: ids of the lookups whose answer produced a reply
  consumed,   \* history: the key whose resumption wrote `carried` ("" if none did)
  everSet,    \* history: the (origin, namespace) pairs SetCurrentKey succeeded for
  setLog      \* history: the latest two SetCurrentKey requests that succeeded

vars == <<store, inflight, carried, pc, lastIn, lastOut, issued, answered, consumed,
          everSet, setLog>>

NoMessage == Msg("none", <<>>, <<>>, <<>>, "", NoneSeq, FALSE)
\* `src` is the id of the lookup being answered, 0 when the message answers none.
NoInput == [attested |-> NoneSeq, message |-> NoMessage, src |-> 0]

Init ==
  /\ store = [k \in AllKeys |-> NoneSeq]
  /\ inflight = {}
  /\ carried = <<>>
  /\ pc = "idle"
  /\ lastIn = NoInput
  /\ lastOut = Ok(<<>>)
  /\ issued = 0
  /\ answered = {}
  /\ consumed = ""
  /\ everSet = {}
  /\ setLog = <<>>

\* Keys of the table a context blob decodes to (none when it does not decode).
TableKeys(bytes) ==
  Let(ContextTryFrom(bytes), LAMBDA d : IF d.ok THEN DOMAIN d.val.pending_ops ELSE {})

\* Every key the table of this invocation can hold: those of the inbound
\* context and the one a GetPreviousKey request inserts.
KeysInPlay(attested, message) ==
  IF message.type = "ApplicationMessage" /\ attested.some
  THEN Let(DeRequest(message.payload), LAMBDA r :
         IF r.ok /\ r.val.variant = "GetPreviousKey"
         THEN TableKeys(message.context)
                \cup {create_storage_key(attested.val, r.val.namespace)}
         ELSE TableKeys(message.context))
  ELSE TableKeys(message.context)

\* The delegate is invoked: process runs to completion and returns.  The
\* HashMap it serializes is iterated in any order of its keys.
Invoke(attested, message, src) ==
  /\ pc = "idle"
  /\ lastIn' = [attested |-> attested, message |-> message, src |-> src]
  /\ \E iter \in IterationOrders(KeysInPlay(attested, message)) :
        lastOut' = process(attested, message, iter)
  /\ pc' = "returned"
  /\ UNCHANGED <<store, inflight, carried, issued, answered, consumed, everSet, setLog>>

GetMessage(ns, app, ctx) ==
  ApplicationMessage(app, SerRequest(RequestGetPreviousKey(ns)), ctx)

SetMessage(ns, info, app, ctx) ==
  ApplicationMessage(app,
    SerRequest(RequestSetCurrentKey(ns, info.delegate_key, info.code_hash)), ctx)

\* ApplicationMessage::processed(true)
Processed(m) == [m EXCEPT !.processed = TRUE]

\* An application sends GetPreviousKey { namespace }.
CallGetPreviousKey ==
  \E c \in Callers, ns \in Namespaces :
    /\ Cardinality(TableKeys(carried) \cup {create_storage_key(c.origin, ns)}) <= MaxPending
    /\ Invoke(SomeSeq(c.origin), GetMessage(ns, c.app, carried), 0)

\* An application sends SetCurrentKey { namespace, delegate_key, code_hash }.
CallSetCurrentKey ==
  \E attested \in Attested, ns \in Namespaces, app \in Apps :
    Invoke(attested, SetMessage(ns, StoredKeyInfo(Fill(42), Fill(7)), app, carried), 0)

\* Application messages of every kind, well-formed or not.
RequestShapes ==
  {GetMessage(NoneStr, Fill(1), ctx) : ctx \in {carried, Malformed}}
    \cup {SetMessage(SomeStr("app"), StoredKeyInfo(Fill(42), Fill(7)), Fill(2), ctx)
            : ctx \in {carried, Malformed}}
    \cup {ApplicationMessage(Fill(1), Malformed, carried)}

\* One message of every shape the host can hand in.
Shapes ==
  RequestShapes
    \cup {Processed(m) : m \in RequestShapes}
    \cup {GetSecretResponse(k, NoneSeq, carried) : k \in TableKeys(carried) \cup {ParkedKey}}
    \cup {UserResponse, GetSecretRequest(ParkedKey, carried)}

\* A message arrives without an attested origin.
CallUnattested == \E m \in Shapes : Invoke(NoneSeq, m, 0)

\* An application message that cannot be taken: already processed, or with a
\* context or payload that does not decode.
CallBadApplicationMessage ==
  \E attested \in Attested, m \in RequestShapes \cup {Processed(r) : r \in RequestShapes} :
    /\ m.processed \/ m.context = Malformed \/ m.payload = Malformed
    /\ Invoke(attested, m, 0)

\* Values a GetSecretResponse may carry: nothing, a stored record, garbage.
ResponseValues ==
  {NoneSeq, SomeSeq(SerStoredKeyInfo(StoredKeyInfo(Fill(42), Fill(7)))),
   SomeSeq(Malformed)}

\* A GetSecretResponse with the carried context and any key and value: the
\* answer to a lookup, a duplicate, an answer to nothing, a corrupted value.
CallGetSecretResponse ==
  \E attested \in Attested, key \in AllKeys, value \in ResponseValues :
    Invoke(attested, GetSecretResponse(key, value, carried), 0)

\* A GetSecretResponse with a context the delegate did not write.
CallStrayContext ==
  \E key \in {ParkedKey, create_storage_key(<<0, 1>>, NoneStr)},
     value \in ResponseValues, ctx \in {<<>>, Malformed, ParkedSetContext} :
    Invoke(SomeSeq(<<1>>), GetSecretResponse(key, value, ctx), 0)

\* A message of a type the delegate does not take.
CallUnexpected ==
  \E attested \in Attested :
    \/ Invoke(attested, UserResponse, 0)
    \/ Invoke(attested, GetSecretRequest(ParkedKey, carried), 0)

(***************************************************************************)
(* What the host does with the messages process returned.                  *)
(***************************************************************************)
Effects == IF lastOut.ok THEN lastOut.val ELSE <<>>

\* The context the host carries on: that of the last message that has one.
CarriedAfter ==
  Let(SelectSeq(Effects, LAMBDA m : m.type # "SetSecretRequest"), LAMBDA withCtx :
    IF withCtx = <<>> THEN carried ELSE withCtx[Len(withCtx)].context)

(***************************************************************************)
(* What is read off an invocation that returned.                           *)
(***************************************************************************)
Returned == pc = "returned"
InMsg == lastIn.message
\* The request an application message carries, decoded.
InRequest == DeRequest(InMsg.payload)
\* The table of the inbound context, and of the context of the i-th effect.
InTable == ContextTryFrom(InMsg.context).val.pending_ops
OutTable(i) == ContextTryFrom(Effects[i].context).val.pending_ops

\* process got as far as handle_get_previous_key / handle_set_current_key.
TookRequest(variant) ==
  /\ Returned
  /\ lastIn.attested.some
  /\ InMsg.type = "ApplicationMessage"
  /\ ~InMsg.processed
  /\ ContextTryFrom(InMsg.context).ok
  /\ InRequest.ok
  /\ InRequest.val.variant = variant

\* A GetSecretResponse whose context decodes arrived with an attested origin.
TookResponse ==
  /\ Returned
  /\ lastIn.attested.some
  /\ InMsg.type = "GetSecretResponse"
  /\ ContextTryFrom(InMsg.context).ok

\* ... and the context holds a GetPreviousKey entry under the response's key.
ResumesGetPreviousKey ==
  /\ TookResponse
  /\ InMsg.key \in DOMAIN InTable
  /\ InTable[InMsg.key].variant = "GetPreviousKey"

\* The storage key of the request that was taken.
RequestKey == create_storage_key(lastIn.attested.val, InRequest.val.namespace)

\* The host carries the context on to the next message (the store and the
\* lookups are left out of this specification).
HostThread ==
  /\ pc = "returned"
  /\ pc' = "idle"
  /\ carried' = CarriedAfter
  /\ lastIn' = NoInput
  /\ lastOut' = Ok(<<>>)
  /\ UNCHANGED <<store, inflight, issued, answered, consumed, everSet, setLog>>

Next ==
  \/ CallGetPreviousKey
  \/ CallSetCurrentKey
  \/ CallUnattested
  \/ CallBadApplicationMessage
  \/ CallGetSecretResponse
  \/ CallStrayContext
  \/ CallUnexpected
  \/ HostThread

\* The delegate under every message a host can hand it, the context threaded.
Spec == Init /\ [][Next]_vars

(***************************************************************************)
(* The host with its secret store.                                         *)
(***************************************************************************)
\* The origin whose exchanges are followed, and another one writing next to it.
Tenant == <<0, 1>>
Other == <<1>>

\* The SetCurrentKey requests the two origins send.
Writers ==
  {[origin |-> Tenant, namespace |-> ns, info |-> info] : ns \in Namespaces, info \in KeyPairs}
    \cup {[origin |-> Other, namespace |-> ns, info |-> StoredKeyInfo(Fill(42), Fill(7))]
            : ns \in {NoneStr, SomeStr("app")}}

\* The secret store after the SetSecretRequests of `msgs`, in order.
RECURSIVE StoreAfter(_, _)
StoreAfter(st, msgs) ==
  IF msgs = <<>> THEN st
  ELSE StoreAfter(IF Head(msgs).type = "SetSecretRequest"
                  THEN [st EXCEPT ![Head(msgs).key] = Head(msgs).value]
                  ELSE st,
                  Tail(msgs))

\* The GetSecretRequests among the effects.
Lookups == SelectSeq(Effects, LAMBDA m : m.type = "GetSecretRequest")

\* The lookups the host registers, numbered from `first`; each keeps the
\* context of its request, which the host hands back with the answer.
Registered(first) ==
  {[id |-> first + i - 1, key |-> Lookups[i].key, context |-> Lookups[i].context,
    origin |-> lastIn.attested.val, namespace |-> InRequest.val.namespace,
    app |-> InMsg.app] : i \in 1..Len(Lookups)}

\* The lookup the returned invocation answered, if it answered one.
Delivered == {l \in inflight : l.id = lastIn.src}

\* The host answers a lookup: the stored value, with the lookup's context.
Deliver ==
  \E l \in inflight :
    Invoke(SomeSeq(l.origin), GetSecretResponse(l.key, store[l.key], l.context), l.id)

\* One exchange at a time: a request is sent when no lookup is in flight.
StoreSetCurrentKey ==
  \E w \in Writers :
    /\ inflight = {}
    /\ Invoke(SomeSeq(w.origin), SetMessage(w.namespace, w.info, Fill(1), carried), 0)

StoreGetPreviousKey ==
  \E ns \in Namespaces, ctx \in {<<>>, carried} :
    /\ inflight = {}
    /\ Invoke(SomeSeq(Tenant), GetMessage(ns, Fill(1), ctx), 0)

\* The host carries out what the invocation returned: writes go to the store,
\* lookups are registered, the answered lookup is done.
HostApply ==
  /\ pc = "returned"
  /\ pc' = "idle"
  /\ store' = StoreAfter(store, Effects)
  /\ inflight' = (inflight \ Delivered) \cup Registered(1)
  /\ carried' = CarriedAfter
  /\ IF TookRequest("SetCurrentKey") /\ lastOut.ok
     THEN /\ everSet' = everSet \cup {[origin |-> lastIn.attested.val,
                                       namespace |-> InRequest.val.namespace]}
          /\ setLog' = Let(Append(setLog,
                             [origin |-> lastIn.attested.val,
                              namespace |-> InRequest.val.namespace,
                              info |-> StoredKeyInfo(InRequest.val.delegate_key,
                                                     InRequest.val.code_hash)]),
                           LAMBDA log : IF Len(log) > 2 THEN Tail(log) ELSE log)
     ELSE UNCHANGED <<everSet, setLog>>
  /\ lastIn' = NoInput
  /\ lastOut' = Ok(<<>>)
  /\ UNCHANGED <<issued, answered, consumed>>

NextStore ==
  \/ StoreSetCurrentKey
  \/ StoreGetPreviousKey
  \/ Deliver
  \/ HostApply

\* Exchanges run one after the other against the secret store.
SpecStore == Init /\ [][NextStore]_vars

(***************************************************************************)
(* The host with several lookups in flight.                                *)
(***************************************************************************)
\* GetPreviousKey requests of one origin, sent while earlier lookups wait.
PendGetPreviousKey ==
  \E app \in Apps, ns \in {NoneStr, SomeStr("app")}, ctx \in {<<>>, carried} :
    /\ issued < MaxLookups
    /\ Cardinality(TableKeys(ctx) \cup {create_storage_key(Tenant, ns)}) <= MaxPending
    /\ Invoke(SomeSeq(Tenant), GetMessage(ns, app, ctx), 0)

\* A second answer for the key that was just resumed, with the context the
\* resumption left.
DeliverAgain ==
  /\ consumed # ""
  /\ Invoke(SomeSeq(Tenant), GetSecretResponse(consumed, store[consumed], carried), 0)

\* The host registers the lookups under fresh ids and notes which lookup was
\* answered; a lookup is answered once.
HostTrack ==
  /\ pc = "returned"
  /\ pc' = "idle"
  /\ inflight' = (inflight \ Delivered) \cup Registered(issued + 1)
  /\ issued' = issued + Len(Lookups)
  /\ answered' = IF lastIn.src # 0 /\ lastOut.ok THEN answered \cup {lastIn.src}
                 ELSE answered
  /\ consumed' = IF InMsg.type = "GetSecretResponse" /\ lastOut.ok THEN InMsg.key
                 ELSE IF Effects # <<>> THEN "" ELSE consumed
  /\ carried' = CarriedAfter
  /\ store' = StoreAfter(store, Effects)
  /\ lastIn' = NoInput
  /\ lastOut' = Ok(<<>>)
  /\ UNCHANGED <<everSet, setLog>>

NextPending ==
  \/ PendGetPreviousKey
  \/ Deliver
  \/ DeliverAgain
  \/ HostTrack

\* Lookups overlap; no key is set.
SpecPending == Init /\ [][NextPending]_vars

\* The reply a resumption returned, decoded.
Reply == DeResponse(Effects[1].payload)

\* One reply PreviousKey{namespace of the entry, dk, ch} to the entry's
\* application, with the inbound table less the entry.
RepliesPreviousKey(dk, ch) ==
  /\ lastOut.ok
  /\ Len(Effects) = 1
  /\ Effects[1].type = "ApplicationMessage"
  /\ Effects[1].app = InTable[InMsg.key].app
  /\ Reply.ok
  /\ Reply.val = ResponsePreviousKey(InTable[InMsg.key].namespace, dk, ch)
  /\ ContextTryFrom(Effects[1].context).ok
  /\ OutTable(1) = HashMapRemove(InTable, InMsg.key)

\* The returned invocation answered a lookup; the lookup it answered.
Answering == Returned /\ lastIn.src # 0
Lookup == CHOOSE l \in inflight : l.id = lastIn.src

\* Origins and namespaces the key derivation is compared over.
OriginUniverse == Origins \cup {<<>>, <<0>>, <<0, 0>>, <<58>>, <<1, 0>>, <<57>>}
NamespaceUniverse ==
  Namespaces \cup {SomeStr(""), SomeStr(":"), SomeStr("2:app"), SomeStr("app:_default_")}

(***************************************************************************)
(* Claims about one invocation (specification Spec).                       *)
(***************************************************************************)
\* C2: for one origin and two distinct namespace values n1 # n2 (absent or a
\* string), the storage keys differ: the key a SetCurrentKey under n1 writes
\* is not the key of any other namespace of that origin.
C2_NamespaceKeysDiffer ==
  (TookRequest("SetCurrentKey") /\ lastOut.ok) =>
    \A n2 \in Namespaces \ {InRequest.val.namespace} :
      Effects[2].key # create_storage_key(lastIn.attested.val, n2)

\* C3: every lookup or write an invocation attested as origin o emits has the
\* key derived from o and the request's namespace, and that key is derived
\* from no other origin, whatever the namespace; and a GetPreviousKey exchange
\* of an origin that set nothing replies None and None, whatever other
\* origins have set.
C3_OriginIsolation ==
  /\ (Returned /\ lastIn.attested.some /\ InMsg.type = "ApplicationMessage") =>
       \A i \in 1..Len(Effects) :
         Effects[i].type \in {"GetSecretRequest", "SetSecretRequest"} =>
           /\ Effects[i].key = RequestKey
           /\ \A o2 \in OriginUniverse \ {lastIn.attested.val}, n2 \in NamespaceUniverse :
                Effects[i].key # create_storage_key(o2, n2)
  /\ (Answering /\ \A e \in everSet : e.origin # Lookup.origin) =>
       RepliesPreviousKey(NoneSeq, NoneSeq)

\* C3 witness: the tenant, having set nothing, was answered None under a
\* namespace the other origin has set.
C3_Witness ==
  /\ Answering
  /\ \A e \in everSet : e.origin # Lookup.origin
  /\ [origin |-> Other, namespace |-> Lookup.namespace] \in everSet
  /\ store[create_storage_key(Other, Lookup.namespace)].some
  /\ lastOut.ok
  /\ Reply.val.delegate_key = NoneSeq

\* C5: a message of any shape without an attested origin fails with
\* "missing attested origin" and has no outbound effect, whatever else is
\* wrong with it.
C5_MissingOrigin ==
  (Returned /\ ~lastIn.attested.some) =>
    /\ lastOut = Err(ErrMissingOrigin)
    /\ Effects = <<>>

\* C5 witness: an unattested application message that is processed and
\* carries an undecodable context was answered.
C5_Witness ==
  /\ Returned
  /\ ~lastIn.attested.some
  /\ InMsg.type = "ApplicationMessage"
  /\ InMsg.processed
  /\ InMsg.context = Malformed
  /\ ~lastOut.ok

\* C6: a successful GetPreviousKey{namespace} from origin o with reply target a
\* returns exactly one effect, a lookup with key derive(o, namespace) whose
\* context is the inbound table with [key -> GetPreviousKey{o, namespace, a}]
\* registered.
C6_GetPreviousKeyEffects ==
  (TookRequest("GetPreviousKey") /\ lastOut.ok) =>
    /\ Len(Effects) = 1
    /\ Effects[1].type = "GetSecretRequest"
    /\ Effects[1].key = RequestKey
    /\ ~Effects[1].processed
    /\ ContextTryFrom(Effects[1].context).ok
    /\ OutTable(1) =
         HashMapInsert(InTable, RequestKey,
           PendingGetPreviousKey(lastIn.attested.val, InRequest.val.namespace, InMsg.app))

\* C6 witness: a lookup was registered next to an entry of another key.
C6_Witness ==
  /\ TookRequest("GetPreviousKey")
  /\ lastOut.ok
  /\ DOMAIN InTable # {}
  /\ RequestKey \notin DOMAIN InTable
  /\ Cardinality(DOMAIN OutTable(1)) = 2

\* C7: a successful SetCurrentKey{namespace, K, H} from origin o returns
\* exactly two effects: first the reply KeyUpdated{namespace} to the
\* requesting application with the inbound table unchanged, then a write of
\* the encoded StoredKeyInfo{K, H} under derive(o, namespace).
C7_SetCurrentKeyEffects ==
  (TookRequest("SetCurrentKey") /\ lastOut.ok) =>
    /\ Len(Effects) = 2
    /\ Effects[1].type = "ApplicationMessage"
    /\ Effects[1].app = InMsg.app
    /\ DeResponse(Effects[1].payload).ok
    /\ DeResponse(Effects[1].payload).val = ResponseKeyUpdated(InRequest.val.namespace)
    /\ ContextTryFrom(Effects[1].context).ok
    /\ OutTable(1) = InTable
    /\ Effects[2].type = "SetSecretRequest"
    /\ Effects[2].key = RequestKey
    /\ Effects[2].value.some
    /\ DeStoredKeyInfo(Effects[2].value.val).ok
    /\ DeStoredKeyInfo(Effects[2].value.val).val =
         StoredKeyInfo(InRequest.val.delegate_key, InRequest.val.code_hash)

\* C7 witness: a key was set while a lookup was pending.
C7_Witness ==
  /\ TookRequest("SetCurrentKey")
  /\ lastOut.ok
  /\ DOMAIN InTable # {}
  /\ InRequest.val.delegate_key # InRequest.val.code_hash

\* C8, as stated: a response whose context holds a GetPreviousKey entry under
\* its key returns one reply PreviousKey, with both fields Some whenever a
\* value is present and both None when it is absent.
C8_AsStated ==
  ResumesGetPreviousKey =>
    IF InMsg.value.some
    THEN /\ lastOut.ok
         /\ Len(Effects) = 1
         /\ Reply.ok
         /\ Reply.val.delegate_key.some
         /\ Reply.val.code_hash.some
    ELSE RepliesPreviousKey(NoneSeq, NoneSeq)

\* C8, amended: the reply carries the stored pair when the value is present
\* and decodes as StoredKeyInfo, None and None when the value is absent; a
\* value that is present and does not decode fails the invocation
\* ("Failed to deserialize key info") with no effect.
C8_Resumption ==
  ResumesGetPreviousKey =>
    IF ~InMsg.value.some THEN RepliesPreviousKey(NoneSeq, NoneSeq)
    ELSE IF DeStoredKeyInfo(InMsg.value.val).ok
    THEN RepliesPreviousKey(SomeSeq(DeStoredKeyInfo(InMsg.value.val).val.delegate_key),
                            SomeSeq(DeStoredKeyInfo(InMsg.value.val).val.code_hash))
    ELSE lastOut = Err(ErrDeserKeyInfo) /\ Effects = <<>>

\* C8 witness: a stored pair was replied while another lookup stayed pending.
C8_Witness ==
  /\ ResumesGetPreviousKey
  /\ InMsg.value.some
  /\ lastOut.ok
  /\ Reply.val.delegate_key = SomeSeq(Fill(42))
  /\ Reply.val.code_hash = SomeSeq(Fill(7))
  /\ DOMAIN OutTable(1) # {}

\* C9: a response (arriving with an attested origin) whose key has no entry in
\* the table its context decodes to fails with "No pending operation for key"
\* and has no effect, with or without a value.
C9_OrphanedResponse ==
  (TookResponse /\ InMsg.key \notin DOMAIN InTable) =>
    /\ lastOut = Err(ErrNoPending(InMsg.key))
    /\ Effects = <<>>

\* C9 witness: a response with a (corrupted) value and a key that is not among
\* the pending ones was refused.
C9_Witness ==
  /\ TookResponse
  /\ InMsg.key \notin DOMAIN InTable
  /\ DOMAIN InTable # {}
  /\ InMsg.value = SomeSeq(Malformed)
  /\ ~lastOut.ok

(***************************************************************************)
(* Claims about exchanges with the secret store (specification SpecStore). *)
(***************************************************************************)
\* C1: a GetPreviousKey exchange for an (origin, namespace) that was never set
\* replies PreviousKey with None and None; when the latest SetCurrentKey was
\* {ns, K, H} by that origin, the exchange for ns replies Some(K) and Some(H),
\* from the carried context or from an empty one.
C1_ReadAfterWrite ==
  Answering =>
    /\ [origin |-> Lookup.origin, namespace |-> Lookup.namespace] \notin everSet =>
         RepliesPreviousKey(NoneSeq, NoneSeq)
    /\ (/\ setLog # <<>>
        /\ setLog[Len(setLog)].origin = Lookup.origin
        /\ setLog[Len(setLog)].namespace = Lookup.namespace) =>
         RepliesPreviousKey(SomeSeq(setLog[Len(setLog)].info.delegate_key),
                            SomeSeq(setLog[Len(setLog)].info.code_hash))

\* C10: after two SetCurrentKey requests in a row for the same (origin,
\* namespace), with (K1, H1) then (K2, H2), the GetPreviousKey exchange for
\* that (origin, namespace) replies exactly Some(K2) and Some(H2).
C10_LastWriterWins ==
  (/\ Answering
   /\ Len(setLog) = 2
   /\ \A i \in 1..2 : /\ setLog[i].origin = Lookup.origin
                      /\ setLog[i].namespace = Lookup.namespace) =>
    RepliesPreviousKey(SomeSeq(setLog[2].info.delegate_key),
                       SomeSeq(setLog[2].info.code_hash))

\* C10 witness: a pair was overwritten with a different pair and read back.
C10_Witness ==
  /\ Answering
  /\ Len(setLog) = 2
  /\ \A i \in 1..2 : /\ setLog[i].origin = Lookup.origin
                     /\ setLog[i].namespace = Lookup.namespace
  /\ setLog[1].info # setLog[2].info
  /\ lastOut.ok
  /\ Reply.val.delegate_key = SomeSeq(setLog[2].info.delegate_key)

(***************************************************************************)
(* Claims about overlapping lookups (specification SpecPending).  The host *)
(* answers a lookup at most once and hands back the lookup's own context.  *)
(***************************************************************************)
\* C4: every lookup in flight has its entry, under its key, in the context
\* it was issued with; answering it produces one PreviousKey reply whose
\* context no longer holds the entry; a second answer for the key, carrying
\* the context the resumption left, is refused without effect; and the
\* entries of lookups still unanswered pass through every invocation
\* untouched, adding nothing to its effects.
C4_PendingLifecycle ==
  /\ \A l \in inflight :
       /\ ContextTryFrom(l.context).ok
       /\ l.key \in TableKeys(l.context)
       /\ ContextTryFrom(l.context).val.pending_ops[l.key]
            = PendingGetPreviousKey(l.origin, l.namespace, l.app)
       /\ l.id \notin answered
  /\ Answering =>
       /\ ResumesGetPreviousKey
       /\ lastOut.ok
       /\ Len(Effects) = 1
       /\ Effects[1].type = "ApplicationMessage"
       /\ Reply.ok
       /\ Reply.val.variant = "PreviousKey"
       /\ InMsg.key \notin DOMAIN OutTable(1)
  /\ (Returned /\ InMsg.type = "GetSecretResponse" /\ lastIn.src = 0) =>
       /\ lastOut = Err(ErrNoPending(InMsg.key))
       /\ Effects = <<>>
  /\ (Returned /\ lastOut.ok) =>
       /\ Len(Effects) = 1
       /\ \A k \in DOMAIN InTable :
            k # (IF InMsg.type = "GetSecretResponse" THEN InMsg.key ELSE RequestKey) =>
              /\ k \in DOMAIN OutTable(1)
              /\ OutTable(1)[k] = InTable[k]

\* C4 witness: a lookup was answered while an earlier one, of another key,
\* was still waiting, and the waiting entry is in the reply's context.
C4_Witness ==
  /\ Answering
  /\ lastOut.ok
  /\ \E l \in inflight : /\ l.id < lastIn.src
                         /\ l.key # InMsg.key
                         /\ l.key \in DOMAIN OutTable(1)

(***************************************************************************)
(* Errors and dispatch (specification Spec).                               *)
(***************************************************************************)
\* The conditions under which process has to fail.
MustFail ==
  \/ ~lastIn.attested.some
  \/ InMsg.type \in {"UserResponse", "GetSecretRequest"}
  \/ InMsg.type = "ApplicationMessage"
       /\ (InMsg.processed \/ ~ContextTryFrom(InMsg.context).ok \/ ~InRequest.ok)
  \/ InMsg.type = "GetSecretResponse"
       /\ \/ ~ContextTryFrom(InMsg.context).ok
          \/ InMsg.key \notin DOMAIN InTable
          \/ InTable[InMsg.key].variant = "SetCurrentKey"
          \/ InMsg.value.some /\ ~DeStoredKeyInfo(InMsg.value.val).ok

\* C11: an invocation fails exactly when the origin is missing, the message
\* is processed or of an unexpected type, the context, the request or the
\* stored value does not decode, the response is orphaned or meets a parked
\* SetCurrentKey; a failed invocation returns no effect, and a SetCurrentKey
\* request returns the reply and the write together or neither.
C11_AllOrNothing ==
  Returned =>
    /\ MustFail <=> ~lastOut.ok
    /\ ~lastOut.ok => lastOut.val = <<>> /\ Effects = <<>>
    /\ (/\ InMsg.type = "ApplicationMessage"
        /\ InRequest.ok
        /\ InRequest.val.variant = "SetCurrentKey") =>
         LET replies == SelectSeq(lastOut.val, LAMBDA m : m.type = "ApplicationMessage")
             writes == SelectSeq(lastOut.val, LAMBDA m : m.type = "SetSecretRequest")
         IN  Len(replies) = Len(writes) /\ Len(replies) <= 1

\* C11 witness: a SetCurrentKey request with a context that does not decode
\* was refused.
C11_Witness ==
  /\ Returned
  /\ lastIn.attested.some
  /\ InMsg.type = "ApplicationMessage"
  /\ ~InMsg.processed
  /\ InRequest.ok
  /\ InRequest.val.variant = "SetCurrentKey"
  /\ InMsg.context = Malformed
  /\ lastOut = Err(ErrDeserContext)

\* The iteration orders the returned invocation may have met.
InOrders == IterationOrders(KeysInPlay(lastIn.attested, InMsg))

\* C12: an application request with an attested origin that is marked
\* processed fails with "cannot process an already processed message" and no
\* effect, whatever its context and payload; a storage response is handled
\* the same whether or not anything marks it processed.
C12_ProcessedRejected ==
  /\ (Returned /\ lastIn.attested.some /\ InMsg.type = "ApplicationMessage"
        /\ InMsg.processed) =>
       /\ lastOut = Err(ErrProcessed)
       /\ Effects = <<>>
  /\ (Returned /\ lastIn.attested.some /\ InMsg.type = "GetSecretResponse") =>
       \E iter \in InOrders : lastOut = process(lastIn.attested, Processed(InMsg), iter)

\* C12 witness: a processed request whose context does not decode was
\* refused as processed.
C12_Witness ==
  /\ Returned
  /\ lastIn.attested.some
  /\ InMsg.type = "ApplicationMessage"
  /\ InMsg.processed
  /\ InMsg.context = Malformed
  /\ lastOut = Err(ErrProcessed)

\* C13: with an attested origin, an unprocessed application request gets the
\* result of handle_application_message, which is that of exactly one request
\* handler (one lookup, or a reply and a write); a storage response gets the
\* result of handle_get_secret_response (a reply or one of its errors); a
\* user response or an inbound secret request fails as an unexpected message
\* type with no effect.
C13_Dispatch ==
  (Returned /\ lastIn.attested.some) =>
    CASE InMsg.type = "ApplicationMessage" /\ ~InMsg.processed ->
           /\ \E iter \in InOrders :
                lastOut = handle_application_message(InMsg, lastIn.attested.val, iter)
           /\ lastOut.ok =>
                IF InRequest.val.variant = "GetPreviousKey"
                THEN Len(Effects) = 1 /\ Effects[1].type = "GetSecretRequest"
                ELSE /\ Len(Effects) = 2
                     /\ Effects[1].type = "ApplicationMessage"
                     /\ Effects[2].type = "SetSecretRequest"
           /\ ~lastOut.ok => lastOut.err \in {ErrDeserContext, ErrDeserRequest}
      [] InMsg.type = "ApplicationMessage" /\ InMsg.processed -> ~lastOut.ok
      [] InMsg.type = "GetSecretResponse" ->
           /\ \E iter \in InOrders : lastOut = handle_get_secret_response(InMsg, iter)
           /\ lastOut.ok => Len(Effects) = 1 /\ Effects[1].type = "ApplicationMessage"
           /\ ~lastOut.ok =>
                lastOut.err \in {ErrDeserContext, ErrNoPending(InMsg.key), ErrSetPending,
                                 ErrDeserKeyInfo}
      [] InMsg.type = "UserResponse" -> lastOut = Err(ErrUserResponse) /\ Effects = <<>>
      [] InMsg.type = "GetSecretRequest" ->
           lastOut = Err(ErrGetSecretRequest) /\ Effects = <<>>

\* C13 witness: an inbound secret request for a key with a pending entry was
\* refused as unexpected.
C13_Witness ==
  /\ Returned
  /\ lastIn.attested.some
  /\ InMsg.type = "GetSecretRequest"
  /\ InMsg.key \in TableKeys(InMsg.context)
  /\ lastOut = Err(ErrGetSecretRequest)

(***************************************************************************)
(* The context codec on its own (specification SpecCodec): a context in    *)
(* memory is written to a blob, the blob may be damaged on the way, and    *)
(* the blob is read back, alone or as the context of a message.  `lastIn`  *)
(* also holds the context in memory and the form of the blob.              *)
(***************************************************************************)
CodecOps ==
  create_storage_key(<<1>>, NoneStr) :> PendingGetPreviousKey(<<1>>, NoneStr, Fill(1))
  @@ create_storage_key(<<0, 1>>, SomeStr("app")) :>
       PendingGetPreviousKey(<<0, 1>>, SomeStr("app"), Fill(2))
  @@ ParkedKey :> PendingSetCurrentKey(<<1>>, SomeStr("app"), Fill(42), Fill(7))
  @@ create_storage_key(<<0, 1>>, NoneStr) :>
       PendingSetCurrentKey(<<0, 1>>, NoneStr, Fill(7), Fill(42))

CodecContexts ==
  {UpgradeAssistantContext([k \in S |-> CodecOps[k]]) :
     S \in {T \in SUBSET DOMAIN CodecOps : Cardinality(T) <= MaxPending}}

CodecInput(memory, form) ==
  [attested |-> NoneSeq, message |-> NoMessage, src |-> 0, memory |-> memory,
   form |-> form]

InitCodec ==
  /\ store = [k \in AllKeys |-> NoneSeq]
  /\ inflight = {}
  /\ lastOut = Ok(<<>>)
  /\ issued = 0
  /\ answered = {}
  /\ consumed = ""
  /\ everSet = {}
  /\ setLog = <<>>
  /\ carried = <<>>
  /\ \/ \E c \in CodecContexts : lastIn = CodecInput(c, "memory") /\ pc = "memory"
     \/ lastIn = CodecInput(DefaultContext, "empty") /\ pc = "bytes"

\* DelegateContext::try_from(&context), the table iterated in any order.
Encode ==
  /\ pc = "memory"
  /\ \E iter \in IterationOrders(DOMAIN lastIn.memory.pending_ops) :
       carried' = DelegateContextTryFrom(lastIn.memory, iter).val
  /\ lastIn' = [lastIn EXCEPT !.form = "encoded"]
  /\ pc' = "bytes"
  /\ UNCHANGED <<store, inflight, lastOut, issued, answered, consumed, everSet, setLog>>

\* The blob is cut short, or its head is replaced by a text item.
Damage ==
  /\ pc = "bytes"
  /\ lastIn.form = "encoded"
  /\ \/ \E n \in 1..(Len(carried) - 1) : carried' = SubSeq(carried, 1, n)
     \/ carried' = [carried EXCEPT ![1] = Text("pending_ops")]
  /\ lastIn' = [lastIn EXCEPT !.form = "malformed"]
  /\ UNCHANGED <<store, inflight, pc, lastOut, issued, answered, consumed, everSet,
                 setLog>>

\* UpgradeAssistantContext::try_from(blob)
Decode ==
  /\ pc = "bytes"
  /\ lastOut' = ContextTryFrom(carried)
  /\ pc' = "decoded"
  /\ UNCHANGED <<store, inflight, carried, lastIn, issued, answered, consumed, everSet,
                 setLog>>

CodecMessages ==
  {GetMessage(NoneStr, Fill(1), carried),
   SetMessage(SomeStr("app"), StoredKeyInfo(Fill(42), Fill(7)), Fill(1), carried),
   GetSecretResponse(create_storage_key(<<1>>, NoneStr), NoneSeq, carried),
   GetSecretResponse(ParkedKey, NoneSeq, carried)}

\* The blob arrives as the context of a request or of a response.
Carry ==
  /\ pc = "bytes"
  /\ \E message \in CodecMessages :
       /\ lastIn' = [lastIn EXCEPT !.attested = SomeSeq(<<1>>), !.message = message]
       /\ \E iter \in IterationOrders(KeysInPlay(SomeSeq(<<1>>), message)) :
            lastOut' = process(SomeSeq(<<1>>), message, iter)
  /\ pc' = "returned"
  /\ UNCHANGED <<store, inflight, carried, issued, answered, consumed, everSet, setLog>>

NextCodec ==
  \/ Encode
  \/ Damage
  \/ Decode
  \/ Carry

SpecCodec == InitCodec /\ [][NextCodec]_vars

\* C14: reading back what was written from a context gives that context,
\* whatever its pending operations and the order they were written in; the
\* empty blob reads as the empty context; a blob that is not empty and does
\* not decode gives "Failed to deserialize context", and a request or a
\* response that carries it fails with that error and no effect.
C14_ContextCodec ==
  /\ (pc = "decoded" /\ lastIn.form = "encoded") => lastOut = Ok(lastIn.memory)
  /\ (pc = "decoded" /\ lastIn.form = "empty") =>
       lastOut = Ok(UpgradeAssistantContext(EmptyOps))
  /\ (pc = "decoded" /\ lastIn.form = "malformed") =>
       carried # <<>> /\ lastOut = Err(ErrDeserContext)
  /\ (pc = "returned" /\ lastIn.form = "malformed") =>
       lastOut = Err(ErrDeserContext) /\ Effects = <<>>
  /\ (pc = "returned" /\ lastIn.form = "encoded" /\ InMsg.type = "GetSecretResponse") =>
       (lastOut.ok <=>
          /\ InMsg.key \in DOMAIN lastIn.memory.pending_ops
          /\ lastIn.memory.pending_ops[InMsg.key].variant = "GetPreviousKey")

\* C14 witness: a context with an operation of each variant was read back.
C14_Witness ==
  /\ pc = "decoded"
  /\ lastIn.form = "encoded"
  /\ lastOut.ok
  /\ {lastIn.memory.pending_ops[k].variant : k \in DOMAIN lastIn.memory.pending_ops}
       = {"GetPreviousKey", "SetCurrentKey"}

(***************************************************************************)
(* Lookups that are each answered once (specification SpecLive): requests  *)
(* overlap as in SpecPending, a key that holds no value yet may be set in  *)
(* between, and the host answers every lookup it registered with the       *)
(* lookup's key and context.  process runs to completion and the host does *)
(* not drop a registered lookup, hence the weak fairness of the delivery   *)
(* to each lookup and of the host's bookkeeping.                           *)
(***************************************************************************)
\* The tenant sets a key that holds no value yet.
LiveSetCurrentKey ==
  \E ns \in {NoneStr, SomeStr("app")} :
    /\ ~store[create_storage_key(Tenant, ns)].some
    /\ Invoke(SomeSeq(Tenant),
              SetMessage(ns, StoredKeyInfo(Fill(42), Fill(7)), Fill(1), carried), 0)

NextLive ==
  \/ PendGetPreviousKey
  \/ LiveSetCurrentKey
  \/ Deliver
  \/ HostTrack

\* The step of Deliver that answers lookup `id`, told by what it hands to
\* process; process always returns, so its result is left open here.
DeliverTo(id) ==
  \E l \in inflight :
    /\ l.id = id
    /\ pc = "idle"
    /\ pc' = "returned"
    /\ lastIn' = [attested |-> SomeSeq(l.origin),
                  message |-> GetSecretResponse(l.key, store[l.key], l.context),
                  src |-> l.id]

SpecLive ==
  /\ Init
  /\ [][NextLive]_vars
  /\ WF_vars(HostTrack)
  /\ \A id \in 1..MaxLookups : WF_<<pc, lastIn>>(DeliverTo(id))

\* C15: when the host answers each lookup once with the lookup's key and
\* context, every accepted GetPreviousKey request is eventually answered, and
\* the answer is exactly one PreviousKey reply to the application that asked,
\* with the namespace it asked for, also when several lookups are in flight
\* and are answered in any order.
C15_EventualReply ==
  /\ [](Answering =>
          /\ lastOut.ok
          /\ Len(Effects) = 1
          /\ Effects[1].type = "ApplicationMessage"
          /\ Effects[1].app = Lookup.app
          /\ Reply.ok
          /\ Reply.val.variant = "PreviousKey"
          /\ Reply.val.namespace = Lookup.namespace
          /\ lastIn.src \notin answered)
  /\ \A id \in 1..MaxLookups :
       (\E l \in inflight : l.id = id) ~> (id \in answered)

\* C15 witness: the first lookup was answered after the second, while both
\* had been in flight for the same key.
C15_Witness ==
  /\ Answering
  /\ lastIn.src = 1
  /\ 2 \in answered
  /\ lastOut.ok
  /\ InMsg.value.some
  /\ Effects[1].app = Lookup.app

(* Contents of the table (specification Spec). *)
\* C16: the context threaded from the empty one through the delegate's own
\* replies and lookups never holds a SetCurrentKey entry, no invocation adds
\* one, and a response resumed against that context never meets the
\* "Unexpected SetCurrentKey pending operation" branch; only a context from
\* elsewhere that holds such an entry under the response's key does, and it
\* fails with no effect.
C16_SetNeverParked ==
  /\ Let(ContextTryFrom(carried), LAMBDA threaded :
       /\ threaded.ok
       /\ \A k \in DOMAIN threaded.val.pending_ops :
            threaded.val.pending_ops[k].variant = "GetPreviousKey")
  /\ (Returned /\ lastOut.ok) =>
       \A i \in 1..Len(Effects) :
         Effects[i].type # "SetSecretRequest" =>
           Let(ContextTryFrom(Effects[i].context), LAMBDA out :
             /\ out.ok
             /\ \A k \in DOMAIN out.val.pending_ops :
                  out.val.pending_ops[k].variant = "GetPreviousKey")
  /\ (Returned /\ InMsg.context = carried) => lastOut # Err(ErrSetPending)
  /\ (TookResponse /\ InMsg.key \in DOMAIN InTable
        /\ InTable[InMsg.key].variant = "SetCurrentKey") =>
       lastOut = Err(ErrSetPending) /\ Effects = <<>>

\* C16 witness: SetCurrentKey succeeded for a key that has a lookup pending
\* in the threaded context.
C16_Witness ==
  /\ TookRequest("SetCurrentKey")
  /\ lastOut.ok
  /\ InMsg.context = carried
  /\ RequestKey \in DOMAIN InTable
  /\ OutTable(1) = InTable

(***************************************************************************)
(* Lookups answered against the one context the host threads               *)
(* (specification SpecThread): as SpecPending, but every response carries  *)
(* the context of the delegate's latest outbound message, not the one of   *)
(* its lookup.                                                             *)
(***************************************************************************)
DeliverThreaded ==
  \E l \in inflight :
    Invoke(SomeSeq(l.origin), GetSecretResponse(l.key, store[l.key], carried), l.id)

NextThread ==
  \/ PendGetPreviousKey
  \/ DeliverThreaded
  \/ HostTrack

SpecThread == Init /\ [][NextThread]_vars

\* The latest lookup in flight for the key of the response.
LatestLookup ==
  CHOOSE l \in inflight :
    /\ l.key = InMsg.key
    /\ \A m \in inflight : m.key = InMsg.key => m.id <= l.id

\* C17: a GetPreviousKey request for a key the context already holds an
\* entry for replaces that entry (the table keeps its size, the entry names
\* the new application) and still emits its lookup; when the responses are
\* resumed against the one threaded context, the response that finds the
\* entry replies to the application of the latest request for the key, and a
\* response for a key without entry fails with "No pending operation".
C17_OnePendingPerKey ==
  /\ (TookRequest("GetPreviousKey") /\ RequestKey \in DOMAIN InTable) =>
       /\ lastOut.ok
       /\ Len(Effects) = 1
       /\ Effects[1] = GetSecretRequest(RequestKey, Effects[1].context)
       /\ DOMAIN OutTable(1) = DOMAIN InTable
       /\ OutTable(1)[RequestKey]
            = PendingGetPreviousKey(lastIn.attested.val, InRequest.val.namespace, InMsg.app)
  /\ (Answering /\ InMsg.key \in DOMAIN InTable) =>
       /\ lastOut.ok
       /\ Len(Effects) = 1
       /\ Effects[1].type = "ApplicationMessage"
       /\ Effects[1].app = LatestLookup.app
       /\ Reply.val.namespace = LatestLookup.namespace
       /\ InMsg.key \notin DOMAIN OutTable(1)
  /\ (Answering /\ InMsg.key \notin DOMAIN InTable) =>
       /\ lastOut = Err(ErrNoPending(InMsg.key))
       /\ Effects = <<>>

\* C17 witness: of two lookups for one key by two applications, the first
\* was answered with a reply, and the answer to the second finds no entry.
C17_Witness ==
  /\ Answering
  /\ lastIn.src = 2
  /\ 1 \in answered
  /\ consumed = InMsg.key
  /\ InMsg.context = carried
  /\ lastOut = Err(ErrNoPending(InMsg.key))

\* C18: a GetPreviousKey request changes only the entry under its own key, a
\* resumption removes only the entry under the response's key, every other
\* entry of the inbound table is in the outbound one unchanged, and a
\* SetCurrentKey request changes no entry.
C18_Frame ==
  /\ (TookRequest("GetPreviousKey") /\ lastOut.ok) =>
       Let(<<InTable, OutTable(1), RequestKey>>, LAMBDA t :
         /\ DOMAIN t[2] = DOMAIN t[1] \cup {t[3]}
         /\ \A k \in DOMAIN t[1] \ {t[3]} : t[2][k] = t[1][k])
  /\ (ResumesGetPreviousKey /\ lastOut.ok) =>
       Let(<<InTable, OutTable(1)>>, LAMBDA t :
         /\ DOMAIN t[2] = DOMAIN t[1] \ {InMsg.key}
         /\ \A k \in DOMAIN t[1] \ {InMsg.key} : t[2][k] = t[1][k])
  /\ (TookRequest("SetCurrentKey") /\ lastOut.ok) =>
       /\ ContextTryFrom(Effects[1].context).ok
       /\ OutTable(1) = InTable

\* C18 witness: a resumption against a table of two entries left the other
\* entry as it was.
C18_Witness ==
  /\ ResumesGetPreviousKey
  /\ lastOut.ok
  /\ Cardinality(DOMAIN InTable) = 2
  /\ \E k \in DOMAIN InTable \ {InMsg.key} :
       DOMAIN OutTable(1) = {k} /\ OutTable(1)[k] = InTable[k]

\* Attested origins a response may arrive under.
ResponseOrigins == Attested \cup {SomeSeq(<<7>>)}

\* C19: the result of a resumption is the same under every attested origin:
\* what process returned for a response is what it returns for the same
\* response under any other origin, and a response whose entry records
\* another origin than the attested one is resumed all the same.
C19_ResumptionIgnoresOrigin ==
  /\ (Returned /\ lastIn.attested.some /\ InMsg.type = "GetSecretResponse") =>
       \E iter \in InOrders :
         \A other \in ResponseOrigins : process(other, InMsg, iter) = lastOut
  /\ (ResumesGetPreviousKey
        /\ (InMsg.value.some => DeStoredKeyInfo(InMsg.value.val).ok)) =>
       lastOut.ok /\ Effects[1].app = InTable[InMsg.key].app

\* C19 witness: a response attested with another origin than the one its
\* entry records was answered with a reply.
C19_Witness ==
  /\ ResumesGetPreviousKey
  /\ lastOut.ok
  /\ InTable[InMsg.key].origin # lastIn.attested.val
  /\ Len(Effects) = 1

\* C20: every entry of the threaded context under key k records an origin
\* and a namespace whose storage key is k; the entry a GetPreviousKey request
\* writes records the attested origin and the namespace of the request; the
\* namespace of a reply and the origin of its entry derive the key of the
\* response.
C20_KeyEntryConsistency ==
  /\ Let(ContextTryFrom(carried), LAMBDA threaded :
       \A k \in (IF threaded.ok THEN DOMAIN threaded.val.pending_ops ELSE {}) :
         create_storage_key(threaded.val.pending_ops[k].origin,
                            threaded.val.pending_ops[k].namespace) = k)
  /\ (TookRequest("GetPreviousKey") /\ lastOut.ok) =>
       Let(<<OutTable(1), RequestKey>>, LAMBDA t :
         /\ t[1][t[2]].origin = lastIn.attested.val
         /\ t[1][t[2]].namespace = InRequest.val.namespace
         /\ Effects[1].key = t[2]
         /\ \A k \in DOMAIN t[1] : create_storage_key(t[1][k].origin, t[1][k].namespace) = k)
  /\ (ResumesGetPreviousKey /\ InMsg.context = carried /\ lastOut.ok) =>
       create_storage_key(InTable[InMsg.key].origin, Reply.val.namespace) = InMsg.key

\* C20 witness: a lookup of a named namespace was answered from the threaded
\* context.
C20_Witness ==
  /\ ResumesGetPreviousKey
  /\ InMsg.context = carried
  /\ lastOut.ok
  /\ Reply.val.namespace = SomeStr("app")
  /\ InMsg.key = create_storage_key(InTable[InMsg.key].origin, SomeStr("app"))

====
